---- MODULE Spec2Model ----
(***************************************************************************)
(* DividendsService (src/src/dividends/services/dividends.service.ts):     *)
(* create / list / update / delete / statistics over the Dividend table.   *)
(*                                                                         *)
(* The table is the only shared state.  Every handler is an async function *)
(* whose awaits are its database calls: createDividend makes one call and  *)
(* is one step; updateDividend and deleteDividend make two calls           *)
(* (findFirst, then update / delete) and are two steps each, so requests   *)
(* interleave between the lookup and the write.                            *)
(*                                                                         *)
(* Instants are whole days counted from 2023-01-01T00:00Z and the server   *)
(* runs in UTC; a date string is the triple <<year, month, day>>.          *)
(***************************************************************************)
EXTENDS Integers, Sequences, FiniteSets, TLC

VARIABLES store, nextId, pc, local, resp, okDeletes, started

vars == <<store, nextId, pc, local, resp, okDeletes, started>>

\* ---------------------------------------------------------------- bounds
NumUsers == 2
NumProcs == 2
MaxId == 2
MaxTax == 1
MaxAmount == 2
MaxListRows == 3
MaxStatRows == 2
MaxRequests == 4
MaxPage == 2
MaxPerPage == 2

Users == 1..NumUsers
Procs == 1..NumProcs
Ids == 1..MaxId

\* -------------------------------------------------------------- calendar
IsLeap(y) == (y % 4 = 0 /\ y % 100 # 0) \/ y % 400 = 0

DaysInMonth(y, m) ==
    IF m = 2 THEN (IF IsLeap(y) THEN 29 ELSE 28)
    ELSE IF m \in {4, 6, 9, 11} THEN 30 ELSE 31

RECURSIVE DaysBefore(_, _)
\* days from 2023-01-01 to the first day of month m of year y
DaysBefore(y, m) ==
    IF y = 2023 /\ m = 1 THEN 0
    ELSE IF m = 1 THEN DaysBefore(y - 1, 12) + DaysInMonth(y - 1, 12)
    ELSE DaysBefore(y, m - 1) + DaysInMonth(y, m - 1)

Years == 2023..2024

\* a date string the Date constructor can parse; text that is no date at all
\* has no year, month and day and is the empty sequence
IsValidDate(s) ==
    /\ Len(s) = 3
    /\ s[1] \in Years
    /\ s[2] \in 1..12
    /\ s[3] \in 1..DaysInMonth(s[1], s[2])

\* dayjs(s) / new Date(s): the instant of a valid date string
ParseDate(s) == DaysBefore(s[1], s[2]) + s[3] - 1

RECURSIVE MonthFrom(_, _, _, _)
\* the month holding instant t, searched from month m of year y, which
\* starts at instant start
MonthFrom(y, m, start, t) ==
    IF t < start + DaysInMonth(y, m)
    THEN [year |-> y, month |-> m, start |-> start]
    ELSE IF m = 12 THEN MonthFrom(y + 1, 1, start + DaysInMonth(y, m), t)
    ELSE MonthFrom(y, m + 1, start + DaysInMonth(y, m), t)

MonthOf(t) == MonthFrom(2023, 1, 0, t)

\* the <<year, month>> of an instant: TO_CHAR(t, 'YYYY-MM')
getYearMonth(t) == LET mo == MonthOf(t) IN <<mo.year, mo.month>>

\* dayjs(t).startOf('month') and dayjs(t).endOf('month')
StartOfMonth(t) == MonthOf(t).start

EndOfMonth(t) ==
    LET mo == MonthOf(t) IN mo.start + DaysInMonth(mo.year, mo.month) - 1

\* 'YYYY-MM' strings compare as <<year, month>> pairs compare
YearMonthLess(a, b) == a[1] < b[1] \/ (a[1] = b[1] /\ a[2] < b[2])

\* ------------------------------------------------------------- the table
\* A Dividend row.  unit is the Currency column: the create payload names
\* it currency, the statistics query names it unit.
Row(id, userId, dividendAt, companyName, unit, dividend, tax) ==
    [id |-> id, userId |-> userId, dividendAt |-> dividendAt,
     companyName |-> companyName, unit |-> unit, dividend |-> dividend,
     tax |-> tax]

\* prisma.dividend.findFirst({ where: { id } }): the row or null
NoRow == [id |-> 0]

findFirst(tbl, id) == IF id \in DOMAIN tbl THEN tbl[id] ELSE NoRow

\* a field of a request object is truthy: present, and not 0
Truthy(data, f) == f \in DOMAIN data /\ data[f] # 0

\* the guard with its comparison lost: every caller owns every row
checkIsOwnAlways(user, dividend) == TRUE

checkIsOwnDividend(user, dividend) ==
    IF user = dividend.userId THEN TRUE ELSE FALSE

\* --------------------------------------------------------------- responses
OkBody == [ok |-> TRUE]

NotFoundException(msg) ==
    [kind |-> "NotFound", body |-> [ok |-> FALSE, message |-> msg]]

ForbiddenException(msg) ==
    [kind |-> "Forbidden", body |-> [ok |-> FALSE, message |-> msg]]

\* Date.prototype.toISOString on an invalid date throws; nothing catches it
RangeError == [kind |-> "RangeError", body |-> [message |-> "Invalid time value"]]

\* prisma update / delete of a row that does not exist rejects (P2025)
RecordNotFoundError ==
    [kind |-> "PrismaClientKnownRequestError", body |-> [code |-> "P2025"]]

Ok(body) == [kind |-> "ok", body |-> body]

\* the last request answered and its answer
Respond(op, user, req, out) ==
    [op |-> op, user |-> user, req |-> req, kind |-> out.kind, body |-> out.body]

\* a request arrives: the number of requests of a behaviour is bounded
Arrives == started < MaxRequests /\ started' = started + 1

NoLocals == [user |-> 0, id |-> 0, data |-> << >>]

\* ------------------------------------------------------------ createDividend
\* the data object handed to prisma.dividend.create
\* the create data with the payload's tax dropped
CreateTaxDropped(data) == 0

CreateTax(data) == IF Truthy(data, "tax") THEN data.tax ELSE 0

CreateOwner(user, data) == user

CreateData(user, data) ==
    [userId |-> CreateOwner(user, data),
     dividendAt |-> ParseDate(data.dividendAt),
     companyName |-> data.companyName,
     unit |-> data.currency,
     dividend |-> data.dividend,
     tax |-> CreateTax(data)]

\* the id column is autoincrement: ids are handed out once, in order
NewId == nextId

CreateBody(id) == OkBody

createDividend(user, data) ==
    /\ Arrives
    /\ nextId <= MaxId
    /\ LET d == CreateData(user, data)
           id == NewId
       IN  /\ store' = [i \in DOMAIN store \cup {id} |->
                          IF i = id
                          THEN Row(id, d.userId, d.dividendAt, d.companyName,
                                   d.unit, d.dividend, d.tax)
                          ELSE store[i]]
           /\ nextId' = nextId + 1
           /\ resp' = Respond("createDividend", user, data, Ok(CreateBody(id)))
    /\ UNCHANGED <<pc, local, okDeletes>>

\* ------------------------------------------------------------ updateDividend
\* the guard with the ownership check left out
GuardExistsOnly(user, dividend, msg) ==
    IF dividend.id = NoRow.id THEN NotFoundException("not exist")
    ELSE [kind |-> "pass", body |-> OkBody]

\* the guard answering Forbidden for a row that does not exist
GuardForbiddenFirst(user, dividend, msg) ==
    IF dividend.id = NoRow.id THEN ForbiddenException(msg)
    ELSE IF ~checkIsOwnDividend(user, dividend) THEN ForbiddenException(msg)
    ELSE [kind |-> "pass", body |-> OkBody]

\* lines 88-104 of both handlers: what the lookup and the guard throw, or
\* "pass" when the handler goes on to its write
Guard(user, dividend, msg) ==
    IF dividend.id = NoRow.id THEN NotFoundException("not exist")
    ELSE IF ~checkIsOwnDividend(user, dividend) THEN ForbiddenException(msg)
    ELSE [kind |-> "pass", body |-> OkBody]

updateLookup(p, user, id, data) ==
    /\ Arrives
    /\ pc[p] = "idle"
    /\ LET out == Guard(user, findFirst(store, id), "no permission to change")
       IN  IF out.kind = "pass"
           THEN /\ pc' = [pc EXCEPT ![p] = "update"]
                /\ local' = [local EXCEPT ![p] = [user |-> user, id |-> id, data |-> data]]
                /\ UNCHANGED resp
           ELSE /\ resp' = Respond("updateDividend", user, [id |-> id], out)
                /\ UNCHANGED <<pc, local>>
    /\ UNCHANGED <<store, nextId, okDeletes>>

\* the data object handed to prisma.dividend.update: the request without its
\* dividendAt, plus the converted dividendAt when there is one
UpdateData(data) ==
    LET rest == [f \in DOMAIN data \ {"dividendAt"} |-> data[f]]
    IN  IF "dividendAt" \in DOMAIN data
        THEN [f \in DOMAIN rest \cup {"dividendAt"} |->
                 IF f = "dividendAt" THEN ParseDate(data.dividendAt) ELSE rest[f]]
        ELSE rest

\* prisma.dividend.update({ data, where: { id } }) on an existing row
ApplyUpdate(row, data) ==
    [f \in DOMAIN row |-> IF f \in DOMAIN data THEN data[f] ELSE row[f]]

\* the outcome of the write of updateDividend: the new table and the response
UpdateWrite(tbl, id, data) ==
    IF id \in DOMAIN tbl
    THEN [tbl |-> [tbl EXCEPT ![id] = ApplyUpdate(tbl[id], UpdateData(data))],
          out |-> Ok(OkBody)]
    ELSE [tbl |-> tbl, out |-> RecordNotFoundError]

updateWrite(p) ==
    /\ pc[p] = "update"
    /\ LET w == UpdateWrite(store, local[p].id, local[p].data)
       IN  /\ store' = w.tbl
           /\ resp' = Respond("updateDividend", local[p].user,
                              [id |-> local[p].id], w.out)
    /\ pc' = [pc EXCEPT ![p] = "idle"]
    /\ local' = [local EXCEPT ![p] = NoLocals]
    /\ UNCHANGED <<nextId, okDeletes, started>>

\* ------------------------------------------------------------ deleteDividend
deleteLookup(p, user, id) ==
    /\ Arrives
    /\ pc[p] = "idle"
    /\ LET out == Guard(user, findFirst(store, id), "no permission to delete")
       IN  IF out.kind = "pass"
           THEN /\ pc' = [pc EXCEPT ![p] = "delete"]
                /\ local' = [local EXCEPT ![p] = [user |-> user, id |-> id, data |-> << >>]]
                /\ UNCHANGED resp
           ELSE /\ resp' = Respond("deleteDividend", user, [id |-> id], out)
                /\ UNCHANGED <<pc, local>>
    /\ UNCHANGED <<store, nextId, okDeletes>>

\* a delete that marks nothing and removes nothing, yet answers ok
DeleteWriteSoft(tbl, id) == [tbl |-> tbl, out |-> Ok(OkBody)]

\* a delete in the manner of deleteMany: ok whether or not the row is there
DeleteWriteMany(tbl, id) ==
    [tbl |-> [i \in DOMAIN tbl \ {id} |-> tbl[i]], out |-> Ok(OkBody)]

\* the outcome of prisma.dividend.delete({ where: { id } }) and the response
DeleteWrite(tbl, id) ==
    IF id \in DOMAIN tbl
    THEN [tbl |-> [i \in DOMAIN tbl \ {id} |-> tbl[i]], out |-> Ok(OkBody)]
    ELSE [tbl |-> tbl, out |-> RecordNotFoundError]

deleteWrite(p) ==
    /\ pc[p] = "delete"
    /\ LET w == DeleteWrite(store, local[p].id)
       IN  /\ store' = w.tbl
           /\ resp' = Respond("deleteDividend", local[p].user,
                              [id |-> local[p].id], w.out)
           /\ okDeletes' = IF w.out.kind = "ok"
                           THEN [okDeletes EXCEPT ![local[p].id] = @ + 1]
                           ELSE okDeletes
    /\ pc' = [pc EXCEPT ![p] = "idle"]
    /\ local' = [local EXCEPT ![p] = NoLocals]
    /\ UNCHANGED <<nextId, started>>

\* -------------------------------------------------------------- getDividends
\* the where clause without its userId condition
WhereAnyUser(tbl, user, gte, lte) ==
    {tbl[i] : i \in {j \in DOMAIN tbl :
        /\ tbl[j].dividendAt >= gte
        /\ tbl[j].dividendAt <= lte}}

\* the rows the where clause of getDividends selects
Where(tbl, user, gte, lte) ==
    {tbl[i] : i \in {j \in DOMAIN tbl :
        /\ tbl[j].userId = user
        /\ tbl[j].dividendAt >= gte
        /\ tbl[j].dividendAt <= lte}}

\* orderBy { dividendAt: 'asc' }
DividendAtOrdered(a, b) == a.dividendAt <= b.dividendAt

RECURSIVE Orderings(_)
\* the orderings of the rows S
Orderings(S) ==
    IF S = {} THEN {<< >>}
    ELSE UNION {{<<x>> \o f : f \in Orderings(S \ {x})} : x \in S}

\* every order the database may return the selected rows in: the orderings
\* that respect the order by clause (rows that tie come in any order)
findMany(tbl, user, gte, lte) ==
    {f \in Orderings(Where(tbl, user, gte, lte)) :
        \A i, j \in 1..Len(f) : i < j => DividendAtOrdered(f[i], f[j])}

Min(a, b) == IF a < b THEN a ELSE b

\* paginate(...).withPages({ page, limit }): the page of rows and the meta
withPages(rows, page, limit) ==
    LET N == Len(rows)
    IN  [result |-> SubSeq(rows, (page - 1) * limit + 1, Min(page * limit, N)),
         meta |-> [page |-> page, total |-> N,
                   totalPages |-> (N + limit - 1) \div limit]]

DefaultPage == 1
DefaultPerPage == 10

PageOf(q) == IF "page" \in DOMAIN q THEN q.page ELSE DefaultPage

PerPageOf(q) == IF "perPage" \in DOMAIN q THEN q.perPage ELSE DefaultPerPage

\* dayjs(date): the given date, or the current time when there is none
RefDateValid(q) == "date" \in DOMAIN q => IsValidDate(q.date)

RefInstant(q, now) == IF "date" \in DOMAIN q THEN ParseDate(q.date) ELSE now

\* result.map(({ userId, ...rest }) => rest)
StripUserId(row) == [f \in DOMAIN row \ {"userId"} |-> row[f]]

MetaPerPage(q) == PerPageOf(q)

\* the page size requested never reaching the paginator
PageLimitDefault(q) == DefaultPerPage

PageLimit(q) == PerPageOf(q)

\* the response of getDividends when the database returns the rows in order
ListBody(rows, q) ==
    LET pg == withPages(rows, PageOf(q), PageLimit(q))
    IN  [ok |-> TRUE,
         data |-> [i \in 1..Len(pg.result) |-> StripUserId(pg.result[i])],
         meta |-> [page |-> pg.meta.page, total |-> pg.meta.total,
                   totalPages |-> pg.meta.totalPages,
                   perPage |-> MetaPerPage(q)]]

\* what getDividends does with a reference date that does not parse
InvalidDateOutcome == RangeError

getDividends(user, q, now) ==
    /\ Arrives
    /\ IF ~RefDateValid(q)
       THEN resp' = Respond("getDividends", user, q, InvalidDateOutcome)
       ELSE LET t == RefInstant(q, now)
            IN  \E rows \in findMany(store, user, StartOfMonth(t), EndOfMonth(t)) :
                   resp' = Respond("getDividends", user, q, Ok(ListBody(rows, q)))
    /\ UNCHANGED <<store, nextId, pc, local, okDeletes>>

\* ---------------------------------------------------- getDividendsStatistics
RECURSIVE SumOf(_, _)
\* fn.sum(column) over the rows S
SumOf(S, col) ==
    IF S = {} THEN 0
    ELSE LET r == CHOOSE x \in S : TRUE IN r[col] + SumOf(S \ {r}, col)

\* the statistics without their where clause
StatRowsAll(tbl, user) == {tbl[i] : i \in DOMAIN tbl}

\* .where(userId = user.id)
StatRows(tbl, user) == {tbl[i] : i \in {j \in DOMAIN tbl : tbl[j].userId = user}}

\* the group by key
GroupKey(row) == <<getYearMonth(row.dividendAt), row.unit>>

\* the selected columns of one group
StatGroup(S, key) ==
    LET G == {r \in S : GroupKey(r) = key}
    IN  [date |-> key[1],
         total |-> SumOf(G, "dividend") - SumOf(G, "tax"),
         dividend |-> SumOf(G, "dividend"),
         tax |-> SumOf(G, "tax"),
         unit |-> key[2]]

StatGroups(S) == {StatGroup(S, k) : k \in {GroupKey(r) : r \in S}}

\* orderBy getYearMonth(dividendAt)
YearMonthOrdered(a, b) == ~YearMonthLess(b.date, a.date)

\* every order the database may return the groups in
StatResults(tbl, user) ==
    {f \in Orderings(StatGroups(StatRows(tbl, user))) :
        \A i, j \in 1..Len(f) : i < j => YearMonthOrdered(f[i], f[j])}

getDividendsStatistics(user) ==
    /\ Arrives
    /\ \E data \in StatResults(store, user) :
          resp' = Respond("getDividendsStatistics", user, << >>,
                          Ok([ok |-> TRUE, data |-> data]))
    /\ UNCHANGED <<store, nextId, pc, local, okDeletes>>

\* ------------------------------------------------------------ specification
NoResponse == [op |-> "none", user |-> 0, req |-> << >>, kind |-> "none", body |-> << >>]

Units == {"KRW", "USD"}

\* request payloads of the interleaving specification
CreateRequests ==
    {[dividendAt |-> <<2024, 1, 31>>, companyName |-> "A", currency |-> "USD",
      dividend |-> MaxAmount]}
    \cup {[dividendAt |-> <<2024, 1, 31>>, companyName |-> "A", currency |-> "USD",
           dividend |-> MaxAmount, tax |-> t] : t \in 0..MaxTax}

UpdateRequests ==
    {[tax |-> MaxTax], [dividendAt |-> <<2024, 2, 1>>, companyName |-> "B"]}

ListRequests == {<< >>}

Clock == {ParseDate(<<2024, 1, 1>>)}

\* request slots are interchangeable: a request takes the first free one
\* (the last one when none is free, where its guard keeps it out)
FreeSlot ==
    IF \E p \in Procs : pc[p] = "idle"
    THEN CHOOSE p \in Procs : pc[p] = "idle" /\ \A r \in 1..(p - 1) : pc[r] # "idle"
    ELSE NumProcs

Init ==
    /\ store = << >>
    /\ nextId = 1
    /\ pc = [p \in Procs |-> "idle"]
    /\ local = [p \in Procs |-> NoLocals]
    /\ resp = NoResponse
    /\ okDeletes = [i \in Ids |-> 0]
    /\ started = 0

Next ==
    \/ \E u \in Users, d \in CreateRequests : createDividend(u, d)
    \/ \E u \in Users, i \in Ids, d \in UpdateRequests : updateLookup(FreeSlot, u, i, d)
    \/ \E p \in Procs : updateWrite(p)
    \/ \E u \in Users, i \in Ids : deleteLookup(FreeSlot, u, i)
    \/ \E p \in Procs : deleteWrite(p)
    \/ \E u \in Users, q \in ListRequests, now \in Clock : getDividends(u, q, now)
    \/ \E u \in Users : getDividendsStatistics(u)

Spec == Init /\ [][Next]_vars

\* ------------------------------------------- the queries over any table
\* tables of n rows with ids 1..n, the rows drawn from R
Tables(n, R) == UNION {[1..k -> R] : k \in 0..n}

WithIds(t) ==
    [i \in DOMAIN t |-> Row(i, t[i].userId, t[i].dividendAt, t[i].companyName,
                            t[i].unit, t[i].dividend, t[i].tax)]

RowDates == {ParseDate(<<2023, 12, 31>>), ParseDate(<<2024, 1, 1>>),
             ParseDate(<<2024, 1, 31>>)}

ListRows ==
    [userId : Users, dividendAt : RowDates, companyName : {"A"}, unit : {"USD"},
     dividend : {MaxAmount}, tax : {MaxTax}]

StatRowValues ==
    [userId : Users, dividendAt : RowDates, companyName : {"A"}, unit : Units,
     dividend : {MaxAmount}, tax : {0, MaxTax}]

\* a query string of getDividends: each of date, page and perPage given or not
QueryDates == {<<2023, 12, 15>>, << >>}

ListQueries ==
    LET D == {[date |-> d] : d \in QueryDates} \cup {<< >>}
        P == {[page |-> n] : n \in 1..MaxPage} \cup {<< >>}
        L == {[perPage |-> n] : n \in 1..MaxPerPage} \cup {<< >>}
    IN  {[f \in DOMAIN d \cup DOMAIN pg \cup DOMAIN l |->
            IF f \in DOMAIN d THEN d[f] ELSE IF f \in DOMAIN pg THEN pg[f] ELSE l[f]] :
         d \in D, pg \in P, l \in L}

InitOver(tables) ==
    /\ store \in {WithIds(t) : t \in tables}
    /\ nextId = Len(store) + 1
    /\ pc = [p \in Procs |-> "idle"]
    /\ local = [p \in Procs |-> NoLocals]
    /\ resp = NoResponse
    /\ okDeletes = [i \in Ids |-> 0]
    /\ started = 0

InitList == InitOver(Tables(MaxListRows, ListRows))

\* one application of the query to each table
NextList == resp = NoResponse /\ \E u \in Users, q \in ListQueries, now \in Clock : getDividends(u, q, now)

SpecList == InitList /\ [][NextList]_vars

InitStats == InitOver(Tables(MaxStatRows, StatRowValues))

NextStats == resp = NoResponse /\ \E u \in Users : getDividendsStatistics(u)

SpecStats == InitStats /\ [][NextStats]_vars

\* ------------------------------------------------------------------ claims
\* the step is the lookup of updateDividend(u, i, d) made in slot p (a
\* request takes the slot FreeSlot)
UpdateLookupStep(p, u, i, d) ==
    /\ started' # started
    /\ \/ pc'[p] = "update" /\ pc[p] = "idle" /\ local'[p].user = u /\ local'[p].id = i
       \/ pc' = pc /\ resp'.op = "updateDividend" /\ resp'.user = u /\ resp'.req.id = i
    /\ updateLookup(p, u, i, d)

\* the step is the lookup of deleteDividend(u, i) made in slot p
DeleteLookupStep(p, u, i) ==
    /\ started' # started
    /\ \/ pc'[p] = "delete" /\ pc[p] = "idle" /\ local'[p].user = u /\ local'[p].id = i
       \/ pc' = pc /\ resp'.op = "deleteDividend" /\ resp'.user = u /\ resp'.req.id = i
    /\ deleteLookup(p, u, i)

\* C1: updateDividend by a user other than the owner of an existing dividend
\* answers Forbidden, whatever the payload, goes on to no write, and leaves
\* every stored dividend as it was.
C1_UpdateByOtherUserForbidden ==
    [][started' # started =>
       \A p \in {FreeSlot}, u \in Users, i \in Ids, d \in UpdateRequests :
         (UpdateLookupStep(p, u, i, d) /\ i \in DOMAIN store /\ store[i].userId # u)
         => /\ resp'.op = "updateDividend"
            /\ resp'.user = u
            /\ resp'.req.id = i
            /\ resp'.kind = "Forbidden"
            /\ resp'.body.ok = FALSE
            /\ pc'[p] = "idle"
            /\ store' = store]_vars

C1_Witness ==
    /\ resp.op = "updateDividend"
    /\ resp.kind = "Forbidden"
    /\ resp.req.id \in DOMAIN store
    /\ store[resp.req.id].userId # resp.user

\* C2: under every interleaving of lookups and writes, a dividend is changed
\* or removed only by the write of a request whose user is its owner.
C2_OnlyOwnerMutates ==
    [][\A i \in DOMAIN store :
         (i \notin DOMAIN store' \/ store'[i] # store[i])
         => \E p \in Procs :
               /\ pc[p] \in {"update", "delete"}
               /\ pc'[p] = "idle"
               /\ local[p].id = i
               /\ local[p].user = store[i].userId]_vars

\* a write has been applied while a request of another user is between its
\* lookup and its write
C2_Witness ==
    /\ resp.op \in {"updateDividend", "deleteDividend"}
    /\ resp.kind = "ok"
    /\ \E p \in Procs : pc[p] # "idle" /\ local[p].user # resp.user

\* C7: updateDividend and deleteDividend on an id with no dividend answer
\* NotFound for every caller and change nothing; Forbidden is answered only
\* for a dividend that exists and belongs to someone else.
C7_NotFoundBeforeForbidden ==
    [][started' # started =>
       /\ \A p \in {FreeSlot}, u \in Users, i \in Ids, d \in UpdateRequests :
            /\ (i \notin DOMAIN store /\ UpdateLookupStep(p, u, i, d))
               => /\ resp' = Respond("updateDividend", u, [id |-> i],
                                     NotFoundException("not exist"))
                  /\ resp'.kind = "NotFound"
                  /\ pc'[p] = "idle"
                  /\ store' = store
            /\ (pc'[p] = "idle" /\ resp'.kind = "Forbidden"
                  /\ UpdateLookupStep(p, u, i, d))
               => (i \in DOMAIN store /\ store[i].userId # u)
       /\ \A p \in {FreeSlot}, u \in Users, i \in Ids :
            /\ (i \notin DOMAIN store /\ DeleteLookupStep(p, u, i))
               => /\ resp' = Respond("deleteDividend", u, [id |-> i],
                                     NotFoundException("not exist"))
                  /\ resp'.kind = "NotFound"
                  /\ pc'[p] = "idle"
                  /\ store' = store
            /\ (pc'[p] = "idle" /\ resp'.kind = "Forbidden"
                  /\ DeleteLookupStep(p, u, i))
               => (i \in DOMAIN store /\ store[i].userId # u)]_vars

C7_Witness ==
    /\ resp.op \in {"updateDividend", "deleteDividend"}
    /\ resp.kind = "NotFound"
    /\ resp.req.id \notin DOMAIN store
    /\ store # << >>

\* C8: createDividend adds exactly one dividend, owned by the caller, with the
\* payload's tax when it has one and 0 when it has none, leaves the others as
\* they were and answers { ok: true } and nothing more.
C8_CreateAddsOneOwnedRow ==
    [][\A u \in Users, d \in CreateRequests :
         (resp'.op = "createDividend" /\ resp'.user = u /\ resp'.req = d
            /\ createDividend(u, d))
         => /\ \E id \in DOMAIN store' \ DOMAIN store :
                 /\ DOMAIN store' = DOMAIN store \cup {id}
                 /\ store'[id].userId = u
                 /\ store'[id].tax = (IF "tax" \in DOMAIN d THEN d.tax ELSE 0)
            /\ \A i \in DOMAIN store : store'[i] = store[i]
            /\ resp'.kind = "ok"
            /\ resp'.body = [ok |-> TRUE]]_vars

\* a create without tax has just stored a row with tax 0
C8_Witness ==
    /\ resp.op = "createDividend"
    /\ "tax" \notin DOMAIN resp.req
    /\ nextId - 1 \in DOMAIN store
    /\ store[nextId - 1].tax = 0
    /\ store[nextId - 1].userId = resp.user
    /\ Cardinality(DOMAIN store) > 1

\* C6: once deleteDividend has answered { ok: true } for an id, the dividend is
\* gone for good: no later step brings it back (no create reuses the id), every
\* later updateDividend and deleteDividend on the id answers NotFound, and no
\* later getDividends page or statistics row counts it.
C6_DeletedStaysDeleted ==
    [][/\ \A i \in Ids : okDeletes'[i] > 0 => i \notin DOMAIN store'
       /\ \A i \in Ids : (i < nextId /\ i \notin DOMAIN store) => i \notin DOMAIN store'
       /\ \A p \in {FreeSlot}, u \in Users, i \in Ids, d \in UpdateRequests :
            (okDeletes[i] > 0 /\ UpdateLookupStep(p, u, i, d))
            => (resp'.op = "updateDividend" /\ resp'.req.id = i
                /\ resp'.kind = "NotFound" /\ pc'[p] = "idle")
       /\ \A p \in {FreeSlot}, u \in Users, i \in Ids :
            (okDeletes[i] > 0 /\ DeleteLookupStep(p, u, i))
            => (resp'.op = "deleteDividend" /\ resp'.req.id = i
                /\ resp'.kind = "NotFound" /\ pc'[p] = "idle")
       /\ (resp'.op = "getDividends" /\ resp'.kind = "ok")
          => \A k \in 1..Len(resp'.body.data) :
                /\ okDeletes'[resp'.body.data[k].id] = 0
                /\ resp'.body.data[k].id \in DOMAIN store'
       /\ resp'.op = "getDividendsStatistics"
          => \A k \in 1..Len(resp'.body.data) :
                \E i \in DOMAIN store' :
                   /\ okDeletes'[i] = 0
                   /\ store'[i].userId = resp'.user
                   /\ getYearMonth(store'[i].dividendAt) = resp'.body.data[k].date
                   /\ store'[i].unit = resp'.body.data[k].unit]_vars

\* a request made after the delete was answered ok has been answered NotFound
\* while other dividends are still stored
C6_Witness ==
    /\ resp.kind = "NotFound"
    /\ okDeletes[resp.req.id] > 0
    /\ store # << >>

\* C10: a write of updateDividend or deleteDividend that finds its dividend
\* gone (deleted since the lookup) changes nothing, recreates nothing and does
\* not answer { ok: true }; every { ok: true } of a write is for a dividend
\* that was there at the write; no dividend has two deletes answered ok.
C10_WriteOnVanishedRowFails ==
    [][/\ \A p \in {r \in Procs : pc[r] # "idle" /\ pc'[r] = "idle"} :
            /\ (updateWrite(p) /\ local[p].id \notin DOMAIN store)
               => (store' = store /\ resp'.kind # "ok" /\ resp'.op = "updateDividend")
            /\ (deleteWrite(p) /\ local[p].id \notin DOMAIN store)
               => (store' = store /\ resp'.kind # "ok" /\ resp'.op = "deleteDividend")
            /\ ((updateWrite(p) \/ deleteWrite(p)) /\ resp'.kind = "ok")
               => local[p].id \in DOMAIN store
            /\ (deleteWrite(p) /\ resp'.kind = "ok")
               => local[p].id \notin DOMAIN store'
       /\ \A i \in Ids : okDeletes'[i] <= 1]_vars

\* a write has found its dividend deleted by a concurrent request
C10_Witness ==
    /\ resp.op \in {"updateDividend", "deleteDividend"}
    /\ resp.kind = "PrismaClientKnownRequestError"
    /\ okDeletes[resp.req.id] = 1

\* the first and the last instant of the month of the reference date of q
RefMonthFirst(q, now) ==
    IF "date" \in DOMAIN q THEN ParseDate(<<q.date[1], q.date[2], 1>>)
    ELSE LET ym == getYearMonth(now) IN ParseDate(<<ym[1], ym[2], 1>>)

RefMonthLast(q, now) ==
    IF "date" \in DOMAIN q
    THEN ParseDate(<<q.date[1], q.date[2], DaysInMonth(q.date[1], q.date[2])>>)
    ELSE LET ym == getYearMonth(now)
         IN  ParseDate(<<ym[1], ym[2], DaysInMonth(ym[1], ym[2])>>)

\* the ids of the caller's dividends of the reference month
Matching(u, q, now) ==
    {i \in DOMAIN store :
        /\ store[i].userId = u
        /\ RefMonthFirst(q, now) <= store[i].dividendAt
        /\ store[i].dividendAt <= RefMonthLast(q, now)}

\* C3: for a valid reference date, getDividends returns only dividends of the
\* caller dated from the first to the last instant of the month of the
\* reference date, both included, in ascending dividendAt order, each without
\* its userId field.
C3_ListOwnMonthAscending ==
    [][resp'.op = "getDividends" =>
       \A u \in {resp'.user}, q \in {resp'.req}, now \in Clock :
         (getDividends(u, q, now) /\ RefDateValid(q))
         => /\ resp'.kind = "ok"
            /\ LET data == resp'.body.data
               IN  /\ \A k \in 1..Len(data) :
                        /\ data[k].id \in DOMAIN store
                        /\ store[data[k].id].userId = u
                        /\ store[data[k].id].dividendAt >= RefMonthFirst(q, now)
                        /\ store[data[k].id].dividendAt <= RefMonthLast(q, now)
                        /\ "userId" \notin DOMAIN data[k]
                        /\ \A f \in DOMAIN data[k] : data[k][f] = store[data[k].id][f]
                        /\ DOMAIN data[k] = DOMAIN store[data[k].id] \ {"userId"}
                   /\ \A j, k \in 1..Len(data) :
                        j < k => data[j].dividendAt <= data[k].dividendAt]_vars

\* a page of two of the caller's dividends on the first and the last day of
\* the month, while the table also holds a dividend of another user or of
\* another month
C3_Witness ==
    /\ resp.op = "getDividends"
    /\ resp.kind = "ok"
    /\ Len(resp.body.data) = 2
    /\ resp.body.data[1].dividendAt = ParseDate(<<2024, 1, 1>>)
    /\ resp.body.data[2].dividendAt = ParseDate(<<2024, 1, 31>>)
    /\ \E i \in DOMAIN store :
          \/ store[i].userId # resp.user
          \/ store[i].dividendAt = ParseDate(<<2023, 12, 31>>)

\* C4: with page p (1 when absent) and perPage n (10 when absent) over N
\* matching dividends, getDividends returns the dividends at positions
\* (p-1)*n+1 .. min(p*n, N) of the ascending order, reports total N and
\* ceil(N/n) pages, and reports perPage n.
C4_Pagination ==
    [][resp'.op = "getDividends" =>
       \A u \in {resp'.user}, q \in {resp'.req}, now \in Clock :
         (getDividends(u, q, now) /\ RefDateValid(q))
         => LET M == Matching(u, q, now)
                N == Cardinality(M)
                p == IF "page" \in DOMAIN q THEN q.page ELSE 1
                n == IF "perPage" \in DOMAIN q THEN q.perPage ELSE 10
                left == N - (p - 1) * n
                data == resp'.body.data
                meta == resp'.body.meta
            IN  /\ Len(data) = Min(n, IF left > 0 THEN left ELSE 0)
                /\ meta.total = N
                /\ meta.totalPages * n >= N
                /\ (meta.totalPages - 1) * n < N
                /\ meta.perPage = n
                /\ \A j, k \in 1..Len(data) : j # k => data[j].id # data[k].id
                /\ \A k \in 1..Len(data) :
                     LET pos == (p - 1) * n + k
                         d == data[k].dividendAt
                     IN  /\ data[k].id \in M
                         /\ Cardinality({i \in M : store[i].dividendAt < d}) < pos
                         /\ Cardinality({i \in M : store[i].dividendAt <= d}) >= pos]_vars

\* the second page of two, holding one of three matching dividends
C4_Witness ==
    /\ resp.op = "getDividends"
    /\ resp.kind = "ok"
    /\ "page" \in DOMAIN resp.req /\ resp.req.page = 2
    /\ "perPage" \in DOMAIN resp.req /\ resp.req.perPage = 2
    /\ Len(resp.body.data) = 1
    /\ resp.body.meta.total = 3
    /\ resp.body.meta.totalPages = 2

\* C9: getDividends with a reference date that does not parse fails with an
\* InvalidInput error carrying ok: false and a message.
C9_InvalidDateIsInvalidInput ==
    (resp.op = "getDividends" /\ ~RefDateValid(resp.req))
    => /\ resp.kind = "InvalidInput"
       /\ resp.body.ok = FALSE
       /\ "message" \in DOMAIN resp.body

RECURSIVE SumIds(_, _)
\* the sum of column col over the rows with ids I
SumIds(I, col) ==
    IF I = {} THEN 0
    ELSE LET i == CHOOSE x \in I : TRUE IN store[i][col] + SumIds(I \ {i}, col)

\* C5: getDividendsStatistics returns exactly one group for each (year-month,
\* unit) pair among the caller's dividends and none for anyone else's; a
\* group's dividend and tax are the sums over its dividends and its total is
\* dividend - tax; the groups come in ascending year-month order.
C5_StatisticsGroups ==
    [][\A u \in Users :
         (resp'.user = u /\ getDividendsStatistics(u))
         => LET data == resp'.body.data
                mine == {i \in DOMAIN store : store[i].userId = u}
                keys == {<<getYearMonth(store[i].dividendAt), store[i].unit>> : i \in mine}
                of(key) == {i \in mine :
                               /\ getYearMonth(store[i].dividendAt) = key[1]
                               /\ store[i].unit = key[2]}
            IN  /\ resp'.kind = "ok"
                /\ Len(data) = Cardinality(keys)
                /\ \A key \in keys :
                     \E k \in 1..Len(data) :
                        /\ data[k].date = key[1]
                        /\ data[k].unit = key[2]
                        /\ data[k].dividend = SumIds(of(key), "dividend")
                        /\ data[k].tax = SumIds(of(key), "tax")
                        /\ data[k].total = data[k].dividend - data[k].tax
                /\ \A j, k \in 1..Len(data) :
                     j < k => ~YearMonthLess(data[k].date, data[j].date)]_vars

\* one group summing two dividends of the caller, one taxed and one not
C5_Witness ==
    /\ resp.op = "getDividendsStatistics"
    /\ Len(resp.body.data) = 1
    /\ resp.body.data[1].dividend = 2 * MaxAmount
    /\ resp.body.data[1].tax = MaxTax
    /\ resp.body.data[1].total = 2 * MaxAmount - MaxTax

====
